---- MODULE Spec2Model ----
(***************************************************************************)
(* The browser driver of wasm-game-of-life (www/index.js) and the Universe *)
(* engine it calls.                                                        *)
(*                                                                         *)
(* The driver is a set of callbacks the browser's event loop runs one at a *)
(* time.  `todo` holds the statements the running callback has still to    *)
(* execute; the event loop hands out the next callback only when `todo` is *)
(* empty.  Each statement of index.js that touches the universe, the       *)
(* canvas, the button or the animation frame is one step.                  *)
(*                                                                         *)
(* The engine (Universe.new, tick, toggle_cell, kill_universe,             *)
(* random_universe, cells) is the repository's Rust crate, which index.js  *)
(* only imports; its operators are written from the specification.         *)
(***************************************************************************)
EXTENDS Integers, Sequences, FiniteSets

\* ------------------------------------------------------------------ bounds

\* Largest width and height of a universe the driver is run with.
MaxDim == 2
\* Largest value of the ticks-per-frame slider.
MaxTicks == 2
\* How many animation-frame requests a run may make.
MaxRequests == 3
\* How many universes a run may construct (the first one and the resets).
MaxUniverses == 2
\* Positions per pixel at which a click's scaled offset is sampled.
SubPixel == 1
\* Largest width and height of a universe in the engine's own specifications.
MaxEngineDim == 3
\* Largest width and height of the grids the blinker is placed on.
MaxBlinkerDim == 5
\* How many steps the blinker is followed for.
MaxBlinkerSteps == 2

\* --------------------------------------------------------------- constants

CELL_SIZE == 5
Dead == 0
Alive == 1
Null == -1

\* ---------------------------------------------------------------- helpers

Min(a, b) == IF a < b THEN a ELSE b

\* Math.floor(x / d) for an integer numerator x >= 0 and a divisor d > 0.
Floor(x, d) == x \div d

Grids(w, h) == [0 .. (w * h - 1) -> {Dead, Alive}]

\* ------------------------------------------------------------------ engine

\* The buffer index of (row, column): row-major.
get_index(w, row, column) == row * w + column

Offsets == {d \in (-1 .. 1) \X (-1 .. 1) : d # <<0, 0>>}

OffsetSeq == << <<-1, -1>>, <<-1, 0>>, <<-1, 1>>, <<0, -1>>,
                <<0, 1>>, <<1, -1>>, <<1, 0>>, <<1, 1>> >>

RECURSIVE SumNeighbours(_, _, _, _, _, _)
SumNeighbours(cells, w, h, row, column, k) ==
    IF k = 0 THEN 0
    ELSE LET d == OffsetSeq[k]
             r == (row + d[1] + h) % h
             c == (column + d[2] + w) % w
         IN cells[get_index(w, r, c)]
            + SumNeighbours(cells, w, h, row, column, k - 1)

\* The Alive cells among the adjacent positions that lie in the grid: the
\* lookup stops at the edges.
RECURSIVE SumBounded(_, _, _, _, _, _)
SumBounded(cells, w, h, row, column, k) ==
    IF k = 0 THEN 0
    ELSE LET d == OffsetSeq[k]
             r == row + d[1]
             c == column + d[2]
         IN (IF r \in 0 .. (h - 1) /\ c \in 0 .. (w - 1)
             THEN cells[get_index(w, r, c)] ELSE 0)
            + SumBounded(cells, w, h, row, column, k - 1)

\* A count that does not wrap around the edges.
countNoWrap(cells, w, h, row, column) ==
    SumBounded(cells, w, h, row, column, Len(OffsetSeq))

\* The number of Alive cells at the 8 adjacent positions, wrapped on the torus.
live_neighbor_count(cells, w, h, row, column) ==
    SumNeighbours(cells, w, h, row, column, Len(OffsetSeq))

\* B3/S23.
Rule(cell, n) ==
    IF cell = Alive
    THEN (IF n = 2 \/ n = 3 THEN Alive ELSE Dead)
    ELSE (IF n = 3 THEN Alive ELSE Dead)

\* A step that writes each new cell into the buffer it is still reading.
RECURSIVE InPlace(_, _, _, _)
InPlace(cells, w, h, idx) ==
    IF idx = w * h THEN cells
    ELSE LET row == idx \div w
             column == idx % w
             n == live_neighbor_count(cells, w, h, row, column)
         IN InPlace([cells EXCEPT ![idx] = Rule(cells[idx], n)], w, h, idx + 1)

tickInPlace(cells, w, h) == InPlace(cells, w, h, 0)

\* A step whose neighbour lookup stops at the edges instead of wrapping.
tickNoWrap(cells, w, h) ==
    [idx \in 0 .. (w * h - 1) |->
        Rule(cells[idx], countNoWrap(cells, w, h, idx \div w, idx % w))]

\* step(): the next generation, every cell computed from the buffer as it was
\* before the step.
tick(cells, w, h) ==
    [idx \in 0 .. (w * h - 1) |->
        Rule(cells[idx], live_neighbor_count(cells, w, h, idx \div w, idx % w))]

InBounds(w, h, row, column) ==
    /\ row \in 0 .. (h - 1)
    /\ column \in 0 .. (w - 1)

Flip(cell) == IF cell = Dead THEN Alive ELSE Dead

\* A toggle that does not check the coordinates: a column past the end of a
\* row lands in the next row, a row past the end or a negative one fails.
toggleUnchecked(cells, w, h, row, column) ==
    IF get_index(w, row, column) \in DOMAIN cells
    THEN [cells EXCEPT ![get_index(w, row, column)] = Flip(@)]
    ELSE cells

\* toggle(row, column): the buffer after the call.  Outside the grid the call
\* fails (toggle_fails) and the buffer is left as it was.
toggle_cell(cells, w, h, row, column) ==
    IF InBounds(w, h, row, column)
    THEN [cells EXCEPT ![get_index(w, row, column)] = Flip(@)]
    ELSE cells

toggle_fails(w, h, row, column) == ~InBounds(w, h, row, column)

\* clear(): every cell Dead.
kill_universe(cells) == [idx \in DOMAIN cells |-> Dead]

\* A re-randomized universe that comes out with its two dimensions exchanged.
random_universe_transposed(w, h) == << h, w >>

\* The <<width, height>> of the universe random_universe() constructs, for
\* the <<w, h>> of the universe new() constructed: randomizing keeps the
\* dimensions.
random_universe_size(w, h) == << w, h >>

\* ------------------------------------------------------------------ driver

VARIABLES
    width,          \* const width = universe.width()
    height,         \* const height = universe.height()
    universe,       \* the Universe the variable `universe` refers to
    nextUniverse,   \* the identity the next constructed Universe gets
    animationId,    \* the request id of the scheduled frame, or Null
    pending,        \* the frame requests the browser has still to deliver
    nextRequest,    \* the id the next requestAnimationFrame returns
    ticksPerFrame,  \* the number of ticks per frame
    slider,         \* ticksFrameInputRange.value
    label,          \* playPauseButton.textContent
    gridDrawn,      \* whether drawGrid has stroked the lattice
    canvas,         \* the colour last painted for each (row, col)
    view,           \* the Uint8Array over the cell buffer drawCells reads
    todo,           \* the statements the running callback has still to execute
    cb,             \* the callback that is running, or that ran last
    prevCb,         \* the callback that ran before it
    calls,          \* the calls the running (or last) callback has made so far
    engine          \* the last call of the engine's own specifications

vars == <<width, height, universe, nextUniverse, animationId, pending,
          nextRequest, ticksPerFrame, slider, label, gridDrawn, canvas, view,
          todo, cb, prevCb, calls, engine>>

GRID_COLOR == "#CCCCCC"
DEAD_COLOR == "#FFFFFF"
ALIVE_COLOR == "#000000"
Blank == "blank"
PauseSymbol == "pause"
PlaySymbol == "play"

TickValues == 0 .. MaxTicks

canvasHeight == (CELL_SIZE + 1) * height + 1
canvasWidth == (CELL_SIZE + 1) * width + 1

Positions == (0 .. (height - 1)) \X (0 .. (width - 1))

\* An index that strides by the number of rows.
getIndexWrongStride(row, column) == row * height + column

getIndex(row, column) == row * width + column

isPaused == animationId = Null

\* The universe a statement reaches when it holds on to the object that
\* `universe` named before the latest reset.
universeBeforeReset == IF universe.id > 1 THEN universe.id - 1 ELSE universe.id

\* The universe a statement that names `universe` reaches: the module-level
\* binding is looked up when the statement runs.
universeRef == universe.id

\* -------------------------------------------------------------- statements

S(op) == [op |-> op, a |-> 0, b |-> 0]
S2(op, a, b) == [op |-> op, a |-> a, b |-> b]

\* drawCells that keeps the view of an earlier call instead of asking for one.
drawCellsCachedView == << S("draw") >>

drawCells == << S("cells"), S("draw") >>

\* A render loop that draws before its batch of ticks.
renderLoopDrawsFirst ==
    << S("renderLoop"), S("drawGrid") >> \o drawCells
        \o << S2("for", 0, 0), S("requestAnimationFrame") >>

\* A render loop that does not ask for the next frame.
renderLoopNoRequest ==
    << S("renderLoop"), S2("for", 0, 0), S("drawGrid") >> \o drawCells

renderLoop ==
    << S("renderLoop"), S2("for", 0, 0), S("drawGrid") >> \o drawCells
        \o << S("requestAnimationFrame") >>

play == << S2("textContent", 1, 0) >> \o renderLoop

\* A pause that forgets the frame it has requested without cancelling it.
pauseNoCancel == << S2("textContent", 0, 0), S("animationId_null") >>

\* A pause that leaves the button as it is.
pauseNoLabel == << S("cancelAnimationFrame"), S("animationId_null") >>

pause == << S2("textContent", 0, 0), S("cancelAnimationFrame"),
            S("animationId_null") >>

\* A button that starts a render loop at every click.
playPauseClickAlwaysPlays == play

playPauseClick == IF isPaused THEN play ELSE pause

updateTicks == << S("updateTicks") >>

resetClick == << S("random_universe"), S("drawGrid") >> \o drawCells

\* A kill handler that redraws before it clears.
killClickDrawsFirst ==
    pause \o << S("drawGrid") >> \o drawCells \o << S("kill_universe") >>

\* A kill handler that leaves the render loop running.
killClickNoPause == << S("kill_universe"), S("drawGrid") >> \o drawCells

killClick == pause \o << S("kill_universe"), S("drawGrid") >> \o drawCells

\* Math.floor(offset / (CELL_SIZE + 1)) of a scaled offset of
\* offset / SubPixel pixels.
FloorCell(offset) == Floor(offset, SubPixel * (CELL_SIZE + 1))

\* A row that is not clamped to the last one.
ClickRowUnclamped(rawRow) == rawRow

\* Math.min(Math.floor(canvasTop / (CELL_SIZE + 1)), height - 1)
ClickRow(rawRow) == Min(rawRow, height - 1)

\* Math.min(Math.floor(canvasLeft / (CELL_SIZE + 1)), width - 1)
ClickCol(rawCol) == Min(rawCol, width - 1)

\* A click handler that passes the column where the row belongs.
canvasClickSwapped(row, col) ==
    << S2("toggle_cell", col, row), S("drawGrid") >> \o drawCells

\* A click handler that redraws by running the render loop.
canvasClickRendersLoop(row, col) ==
    << S2("toggle_cell", row, col) >> \o renderLoop

canvasClick(row, col) ==
    << S2("toggle_cell", row, col), S("drawGrid") >> \o drawCells

startup == updateTicks \o << S("drawGrid") >> \o drawCells \o play

\* ------------------------------------------------------------------ state

NoCall == [op |-> "none", row |-> 0, col |-> 0, before |-> <<>>,
           counts |-> <<>>, failed |-> FALSE, steps |-> 0]

Callback(name) ==
    [name |-> name, row |-> Null, col |-> Null, rawRow |-> Null,
     rawCol |-> Null, before |-> <<>>]

Snapshot ==
    [cells |-> universe.cells, id |-> universe.id, width |-> universe.width,
     height |-> universe.height, animationId |-> animationId,
     pending |-> pending, ticksPerFrame |-> ticksPerFrame, label |-> label]

Call(op, u, x) == [op |-> op, u |-> u, x |-> x]

DriverInit ==
    /\ width \in 1 .. MaxDim
    /\ height \in 1 .. MaxDim
    /\ \E g \in Grids(width, height) :
           universe = [id |-> 1, width |-> width, height |-> height, cells |-> g]
    /\ nextUniverse = 2
    /\ animationId = Null
    /\ pending = {}
    /\ nextRequest = 1
    /\ ticksPerFrame = 1
    /\ slider \in TickValues
    /\ label = ""
    /\ gridDrawn = FALSE
    /\ canvas = [p \in Positions |-> Blank]
    /\ view = [valid |-> FALSE, u |-> 0]
    /\ todo = startup
    /\ cb = Callback("startup")
    /\ prevCb = Callback("none")
    /\ calls = <<>>
    /\ engine = NoCall

Init == DriverInit

\* -------------------------------------------------------------- event loop

\* No callback is running: the event loop may hand out the next one.
Idle == todo = <<>>

\* What the next callback remembers of this one: a click, with its cell and
\* the buffer it started from, or that it was none.
Previous ==
    IF cb.name = "click"
    THEN [cb EXCEPT !.rawRow = Null, !.rawCol = Null,
                    !.before = [cells |-> cb.before.cells, id |-> cb.before.id]]
    ELSE Callback("other")

Start(name, body) ==
    /\ todo' = body
    /\ prevCb' = Previous
    /\ cb' = Callback(name)
    /\ calls' = <<>>

\* The browser delivers a requested animation frame: renderLoop.
Frame ==
    /\ Idle
    /\ nextRequest <= MaxRequests
    /\ \E id \in pending : pending' = pending \ {id}
    /\ Start("frame", renderLoop)
    /\ UNCHANGED <<width, height, universe, nextUniverse, animationId,
                   nextRequest, ticksPerFrame, slider, label, gridDrawn,
                   canvas, view, engine>>

PlayPauseClick ==
    /\ Idle
    /\ isPaused => nextRequest <= MaxRequests
    /\ Start("playPause", playPauseClick)
    /\ UNCHANGED <<width, height, universe, nextUniverse, animationId, pending,
                   nextRequest, ticksPerFrame, slider, label, gridDrawn,
                   canvas, view, engine>>

\* The user moves the slider to v; the input event runs updateTicks.
SliderInput ==
    /\ Idle
    /\ \E v \in TickValues \ {slider} : slider' = v
    /\ Start("slider", updateTicks)
    /\ UNCHANGED <<width, height, universe, nextUniverse, animationId, pending,
                   nextRequest, ticksPerFrame, label, gridDrawn, canvas, view,
                   engine>>

ResetClick ==
    /\ Idle
    /\ nextUniverse <= MaxUniverses
    /\ Start("reset", resetClick)
    /\ UNCHANGED <<width, height, universe, nextUniverse, animationId, pending,
                   nextRequest, ticksPerFrame, slider, label, gridDrawn,
                   canvas, view, engine>>

KillClick ==
    /\ Idle
    /\ Start("kill", killClick)
    /\ UNCHANGED <<width, height, universe, nextUniverse, animationId, pending,
                   nextRequest, ticksPerFrame, slider, label, gridDrawn,
                   canvas, view, engine>>

\* A click on the canvas.  The browser delivers it for a pointer inside the
\* canvas: its scaled offset (canvasTop, canvasLeft) = (top, left) / SubPixel
\* lies in [0, canvas.height] x [0, canvas.width].
ClickTops == 0 .. (SubPixel * canvasHeight)
ClickLefts == 0 .. (SubPixel * canvasWidth)

\* The handler, from Math.floor(canvasTop / (CELL_SIZE + 1)) = rawRow and
\* Math.floor(canvasLeft / (CELL_SIZE + 1)) = rawCol on.
CanvasClickAt(rawRow, rawCol) ==
    LET row == ClickRow(rawRow)
        col == ClickCol(rawCol)
    IN /\ todo' = canvasClick(row, col)
       /\ prevCb' = Previous
       /\ cb' = [name |-> "click", row |-> row, col |-> col,
                 rawRow |-> rawRow, rawCol |-> rawCol, before |-> Snapshot]
       /\ calls' = <<>>
       /\ UNCHANGED <<width, height, universe, nextUniverse, animationId,
                      pending, nextRequest, ticksPerFrame, slider, label,
                      gridDrawn, canvas, view, engine>>

\* A click delivered whatever the running callback is doing.
CanvasClickReentrant ==
    \E rawRow \in {FloorCell(top) : top \in ClickTops},
       rawCol \in {FloorCell(left) : left \in ClickLefts} :
        CanvasClickAt(rawRow, rawCol)

CanvasClick ==
    /\ Idle
    /\ \E rawRow \in {FloorCell(top) : top \in ClickTops},
          rawCol \in {FloorCell(left) : left \in ClickLefts} :
           CanvasClickAt(rawRow, rawCol)

\* -------------------------------------------------------------- statements

Running(op) == todo # <<>> /\ Head(todo).op = op

Next1 == todo' = Tail(todo)

Log(op, u, x) == calls' = Append(calls, Call(op, u, x))

\* playPauseButton.textContent = ...
ExecTextContent ==
    /\ Running("textContent")
    /\ label' = IF Head(todo).a = 1 THEN PauseSymbol ELSE PlaySymbol
    /\ Next1
    /\ UNCHANGED <<width, height, universe, nextUniverse, animationId, pending,
                   nextRequest, ticksPerFrame, slider, gridDrawn, canvas, view,
                   cb, prevCb, calls, engine>>

\* renderLoop is entered.
ExecRenderLoop ==
    /\ Running("renderLoop")
    /\ Log("renderLoop", universeRef, ticksPerFrame)
    /\ Next1
    /\ UNCHANGED <<width, height, universe, nextUniverse, animationId, pending,
                   nextRequest, ticksPerFrame, slider, label, gridDrawn,
                   canvas, view, cb, prevCb, engine>>

LoopContinuesOffByOne(i) == i <= ticksPerFrame

\* i < ticksPerFrame
LoopContinues(i) == i < ticksPerFrame

\* One pass of the loop: universe.tick(); i++.
ExecTick ==
    /\ Running("for")
    /\ LoopContinues(Head(todo).a)
    /\ universe' = [universe EXCEPT
                       !.cells = tick(universe.cells, universe.width,
                                      universe.height)]
    /\ view' = [view EXCEPT !.valid = FALSE]
    /\ Log("tick", universeRef, 0)
    /\ todo' = << S2("for", Head(todo).a + 1, 0) >> \o Tail(todo)
    /\ UNCHANGED <<width, height, nextUniverse, animationId, pending,
                   nextRequest, ticksPerFrame, slider, label, gridDrawn,
                   canvas, cb, prevCb, engine>>

\* The loop's test fails: the batch is over.
ExecLoopExit ==
    /\ Running("for")
    /\ ~LoopContinues(Head(todo).a)
    /\ Next1
    /\ UNCHANGED <<width, height, universe, nextUniverse, animationId, pending,
                   nextRequest, ticksPerFrame, slider, label, gridDrawn,
                   canvas, view, cb, prevCb, calls, engine>>

ExecDrawGrid ==
    /\ Running("drawGrid")
    /\ gridDrawn' = TRUE
    /\ Next1
    /\ UNCHANGED <<width, height, universe, nextUniverse, animationId, pending,
                   nextRequest, ticksPerFrame, slider, label, canvas, view,
                   cb, prevCb, calls, engine>>

\* const cellsPtr = universe.cells(); const cells = new Uint8Array(...)
ExecCells ==
    /\ Running("cells")
    /\ view' = [valid |-> TRUE, u |-> universeRef]
    /\ Log("cells", universeRef, 0)
    /\ Next1
    /\ UNCHANGED <<width, height, universe, nextUniverse, animationId, pending,
                   nextRequest, ticksPerFrame, slider, label, gridDrawn,
                   canvas, cb, prevCb, engine>>

ViewFresh == view.valid /\ view.u = universe.id

\* What the view holds: the buffer while no mutating call has been made since
\* cells(), any bytes after one (the view then points at memory the engine no
\* longer keeps for it).
ViewContents ==
    IF ViewFresh THEN {universe.cells} ELSE Grids(width, height)

Paint(buffer) ==
    [p \in Positions |->
        IF getIndex(p[1], p[2]) \in DOMAIN buffer
           /\ buffer[getIndex(p[1], p[2])] = Dead
        THEN DEAD_COLOR ELSE ALIVE_COLOR]

\* The two loops of drawCells: one fillRect per cell, read through the view.
ExecDraw ==
    /\ Running("draw")
    /\ \E buffer \in ViewContents : canvas' = Paint(buffer)
    /\ Log("read", view.u, IF ViewFresh THEN 1 ELSE 0)
    /\ Next1
    /\ UNCHANGED <<width, height, universe, nextUniverse, animationId, pending,
                   nextRequest, ticksPerFrame, slider, label, gridDrawn, view,
                   cb, prevCb, engine>>

\* animationId = requestAnimationFrame(renderLoop)
ExecRequestAnimationFrame ==
    /\ Running("requestAnimationFrame")
    /\ pending' = pending \cup {nextRequest}
    /\ animationId' = nextRequest
    /\ nextRequest' = nextRequest + 1
    /\ Log("requestAnimationFrame", universeRef, nextRequest)
    /\ Next1
    /\ UNCHANGED <<width, height, universe, nextUniverse, ticksPerFrame,
                   slider, label, gridDrawn, canvas, view, cb, prevCb, engine>>

\* cancelAnimationFrame(animationId)
ExecCancelAnimationFrame ==
    /\ Running("cancelAnimationFrame")
    /\ pending' = pending \ {animationId}
    /\ Next1
    /\ UNCHANGED <<width, height, universe, nextUniverse, animationId,
                   nextRequest, ticksPerFrame, slider, label, gridDrawn,
                   canvas, view, cb, prevCb, calls, engine>>

\* animationId = null
ExecAnimationIdNull ==
    /\ Running("animationId_null")
    /\ animationId' = Null
    /\ Next1
    /\ UNCHANGED <<width, height, universe, nextUniverse, pending,
                   nextRequest, ticksPerFrame, slider, label, gridDrawn,
                   canvas, view, cb, prevCb, calls, engine>>

\* ticksPerFrame = ticksFrameInputRange.value
ExecUpdateTicks ==
    /\ Running("updateTicks")
    /\ ticksPerFrame' = slider
    /\ Next1
    /\ UNCHANGED <<width, height, universe, nextUniverse, animationId, pending,
                   nextRequest, slider, label, gridDrawn, canvas, view, cb,
                   prevCb, calls, engine>>

\* universe = Universe.random_universe(): a new Universe of the same
\* dimensions, every cell Alive or Dead.
ExecRandomUniverse ==
    /\ Running("random_universe")
    /\ LET size == random_universe_size(universe.width, universe.height)
       IN \E g \in Grids(size[1], size[2]) :
              universe' = [id |-> nextUniverse, width |-> size[1],
                           height |-> size[2], cells |-> g]
    /\ nextUniverse' = nextUniverse + 1
    /\ view' = [view EXCEPT !.valid = FALSE]
    /\ Log("random_universe", nextUniverse, 0)
    /\ Next1
    /\ UNCHANGED <<width, height, animationId, pending, nextRequest,
                   ticksPerFrame, slider, label, gridDrawn, canvas, cb,
                   prevCb, engine>>

\* universe.kill_universe()
ExecKillUniverse ==
    /\ Running("kill_universe")
    /\ universe' = [universe EXCEPT !.cells = kill_universe(universe.cells)]
    /\ view' = [view EXCEPT !.valid = FALSE]
    /\ Log("kill_universe", universeRef, 0)
    /\ Next1
    /\ UNCHANGED <<width, height, nextUniverse, animationId, pending,
                   nextRequest, ticksPerFrame, slider, label, gridDrawn,
                   canvas, cb, prevCb, engine>>

\* universe.toggle_cell(row, col).  A call that fails throws, which ends the
\* handler before it redraws.
ExecToggleCell ==
    /\ Running("toggle_cell")
    /\ LET row == Head(todo).a
           col == Head(todo).b
           failed == toggle_fails(universe.width, universe.height, row, col)
       IN /\ universe' = [universe EXCEPT
                             !.cells = toggle_cell(universe.cells, universe.width,
                                                   universe.height, row, col)]
          /\ view' = [view EXCEPT !.valid = FALSE]
          /\ Log("toggle_cell", universeRef, IF failed THEN 0 ELSE 1)
          /\ todo' = IF failed THEN <<>> ELSE Tail(todo)
    /\ UNCHANGED <<width, height, nextUniverse, animationId, pending,
                   nextRequest, ticksPerFrame, slider, label, gridDrawn,
                   canvas, cb, prevCb, engine>>

Next ==
    \/ Frame
    \/ PlayPauseClick
    \/ SliderInput
    \/ ResetClick
    \/ KillClick
    \/ CanvasClick
    \/ ExecTextContent
    \/ ExecRenderLoop
    \/ ExecTick
    \/ ExecLoopExit
    \/ ExecDrawGrid
    \/ ExecCells
    \/ ExecDraw
    \/ ExecRequestAnimationFrame
    \/ ExecCancelAnimationFrame
    \/ ExecAnimationIdNull
    \/ ExecUpdateTicks
    \/ ExecRandomUniverse
    \/ ExecKillUniverse
    \/ ExecToggleCell

Spec == Init /\ [][Next]_vars

\* One statement of the running callback.
Statement ==
    \/ ExecTextContent
    \/ ExecRenderLoop
    \/ ExecTick
    \/ ExecLoopExit
    \/ ExecDrawGrid
    \/ ExecCells
    \/ ExecDraw
    \/ ExecRequestAnimationFrame
    \/ ExecCancelAnimationFrame
    \/ ExecAnimationIdNull
    \/ ExecUpdateTicks
    \/ ExecRandomUniverse
    \/ ExecKillUniverse
    \/ ExecToggleCell

\* The page loaded with a universe of a single cell.
LiveInit == DriverInit /\ width = 1 /\ height = 1

\* The driver under the scheduling the browser gives it.  A callback that has
\* started runs to its end (weak fairness of its statements), and a requested
\* animation frame that is not cancelled is delivered at the next repaint,
\* however many input events arrive (strong fairness of Frame, which is
\* disabled while another callback runs).  Nothing obliges the user to act.
SpecLive == LiveInit /\ [][Next]_vars /\ WF_vars(Statement) /\ SF_vars(Frame)

\* ------------------------------------------------- the engine on its own

\* The driver's part of the state, at rest, around a universe of w x h cells.
AtRest(w, h, g) ==
    /\ width = w
    /\ height = h
    /\ universe = [id |-> 1, width |-> w, height |-> h, cells |-> g]
    /\ nextUniverse = 2
    /\ animationId = Null
    /\ pending = {}
    /\ nextRequest = 1
    /\ ticksPerFrame = 1
    /\ slider = 1
    /\ label = ""
    /\ gridDrawn = FALSE
    /\ canvas = [p \in Positions |-> Blank]
    /\ view = [valid |-> FALSE, u |-> 0]
    /\ todo = <<>>
    /\ cb = Callback("none")
    /\ prevCb = Callback("none")
    /\ calls = <<>>

driverVars == <<width, height, nextUniverse, animationId, pending, nextRequest,
                ticksPerFrame, slider, label, gridDrawn, canvas, view, todo,
                cb, prevCb, calls>>

\* Every universe of up to MaxEngineDim x MaxEngineDim cells.
EngineInit ==
    /\ \E w \in 1 .. MaxEngineDim, h \in 1 .. MaxEngineDim :
           \E g \in Grids(w, h) : AtRest(w, h, g)
    /\ engine = NoCall

\* The live-neighbour count step() works with, for every cell of the buffer.
Counts(u) ==
    [idx \in DOMAIN u.cells |->
        live_neighbor_count(u.cells, u.width, u.height,
                            idx \div u.width, idx % u.width)]

StepUniverse ==
    /\ universe' = [universe EXCEPT
                       !.cells = tick(universe.cells, universe.width,
                                      universe.height)]
    /\ engine' = [engine EXCEPT !.op = "tick", !.before = universe.cells,
                                !.counts = Counts(universe),
                                !.steps = engine.steps + 1]
    /\ UNCHANGED driverVars

\* universe.tick()
EngineTick ==
    /\ engine.op = "none"
    /\ StepUniverse

\* universe.toggle_cell(row, column), for coordinates in the grid and around it.
EngineToggle ==
    /\ engine.op = "none"
    /\ \E row \in -1 .. (universe.height + 1),
          column \in -1 .. (universe.width + 1) :
           /\ universe' = [universe EXCEPT
                              !.cells = toggle_cell(universe.cells,
                                            universe.width, universe.height,
                                            row, column)]
           /\ engine' = [engine EXCEPT
                            !.op = "toggle", !.row = row, !.col = column,
                            !.before = universe.cells,
                            !.failed = toggle_fails(universe.width,
                                           universe.height, row, column)]
    /\ UNCHANGED driverVars

EngineNext == EngineTick \/ EngineToggle

SpecEngine == EngineInit /\ [][EngineNext]_vars

\* Three Alive cells side by side in row r, centred on column c, wrapped.
HBlinker(w, h, r, c) ==
    [idx \in 0 .. (w * h - 1) |->
        IF idx \div w = r
           /\ idx % w \in {(c + w - 1) % w, c, (c + 1) % w}
        THEN Alive ELSE Dead]

\* Three Alive cells on top of each other in column c, centred on row r.
VBlinker(w, h, r, c) ==
    [idx \in 0 .. (w * h - 1) |->
        IF idx % w = c
           /\ idx \div w \in {(r + h - 1) % h, r, (r + 1) % h}
        THEN Alive ELSE Dead]

\* A horizontal blinker anywhere on a grid of 3 .. MaxBlinkerDim cells a side.
BlinkerInit ==
    \E w \in 3 .. MaxBlinkerDim, h \in 3 .. MaxBlinkerDim :
        \E r \in 0 .. (h - 1), c \in 0 .. (w - 1) :
            /\ AtRest(w, h, HBlinker(w, h, r, c))
            /\ engine = [NoCall EXCEPT !.row = r, !.col = c]

BlinkerTick ==
    /\ engine.steps < MaxBlinkerSteps
    /\ StepUniverse

SpecBlinker == BlinkerInit /\ [][BlinkerTick]_vars

\* ------------------------------------------------------------------ claims

Ops(seq) == [k \in DOMAIN seq |-> seq[k].op]

IsPrefix(a, b) == Len(a) <= Len(b) /\ SubSeq(b, 1, Len(a)) = a

Entries == {k \in DOMAIN calls : calls[k].op = "renderLoop"}

\* The calls of the latest invocation of renderLoop, its entry first.
Invocation ==
    LET entry == CHOOSE k \in Entries : \A j \in Entries : j <= k
    IN SubSeq(calls, entry, Len(calls))

\* What an invocation that starts with ticksPerFrame = n does, in order.
Expected(n) ==
    << "renderLoop" >> \o [k \in 1 .. n |-> "tick"]
        \o << "cells", "read", "requestAnimationFrame" >>

\* C1: every invocation of renderLoop makes exactly as many tick() calls as
\* ticksPerFrame held when it started, then obtains and reads the cell buffer
\* once, then requests the next frame: at every moment its calls so far are a
\* prefix of that sequence (no read between two ticks), and when it has
\* returned they are the whole sequence.
C1_TicksThenOneRead ==
    Entries # {} =>
        /\ IsPrefix(Ops(Invocation), Expected(Invocation[1].x))
        /\ Idle => Ops(Invocation) = Expected(Invocation[1].x)
        /\ \A k \in DOMAIN Invocation :
               Invocation[k].op \in {"tick", "cells"}
                   => Invocation[k].u = universe.id

C1_Witness ==
    /\ Idle
    /\ cb.name = "frame"
    /\ ticksPerFrame = 2
    /\ Ops(calls) = << "renderLoop", "tick", "tick", "cells", "read",
                       "requestAnimationFrame" >>

\* A tick of the running batch has been made and another is to come.
BetweenTicks ==
    /\ Running("for")
    /\ Head(todo).a > 0
    /\ LoopContinues(Head(todo).a)

\* C2: the calls on the universe happen one after the other.  While a callback
\* is running no other callback starts (the running one only adds calls to its
\* own), and from a state between two ticks of a frame's batch the only step
\* is the next tick: no toggle, kill, replacement or read comes in between.
C2_StrictSequence ==
    [][/\ ~Idle => (cb' = cb /\ prevCb' = prevCb /\ IsPrefix(calls, calls'))
       /\ BetweenTicks => calls' = Append(calls, Call("tick", universe.id, 0))
      ]_vars

C2_Witness ==
    /\ BetweenTicks
    /\ cb.name = "frame"
    /\ Ops(calls) = << "renderLoop", "tick" >>

Last(seq) == seq[Len(seq)]

\* C3: every read of the cell buffer goes through a view obtained after the
\* latest mutating call (tick, toggle_cell, kill_universe, replacement) on the
\* universe then current, and what a read has painted is that universe's
\* buffer as long as no further call has been made.
C3_ReadsAreFresh ==
    /\ \A k \in DOMAIN calls : calls[k].op = "read" => calls[k].x = 1
    /\ (calls # <<>> /\ Last(calls).op = "read") =>
           /\ Last(calls).u = universe.id
           /\ canvas = Paint(universe.cells)

C3_Witness ==
    /\ Len(calls) = 4
    /\ Ops(calls) = << "renderLoop", "tick", "cells", "read" >>
    /\ \E p \in Positions : canvas[p] = ALIVE_COLOR

\* Row -1 is row height - 1, row height is row 0, and so for the columns.
Wrap(x, n) == IF x < 0 THEN x + n ELSE IF x >= n THEN x - n ELSE x

\* The reference transition: the Alive cells among the 8 offsets around
\* (row, column), each looked up in `cells` after wrapping.
ReferenceCount(cells, w, h, row, column) ==
    Cardinality({d \in Offsets :
        cells[Wrap(row + d[1], h) * w + Wrap(column + d[2], w)] = Alive})

ReferenceStep(cells, w, h) ==
    [idx \in 0 .. (w * h - 1) |->
        LET n == ReferenceCount(cells, w, h, idx \div w, idx % w)
        IN IF (cells[idx] = Alive /\ n \in {2, 3}) \/ (cells[idx] = Dead /\ n = 3)
           THEN Alive ELSE Dead]

\* C4: a step replaces the buffer by the reference transition of the buffer as
\* it was before the step: each new cell is B3/S23 on the live cells among its
\* 8 wrapped neighbours in the old buffer; the dimensions stay.
C4_StepIsReference ==
    engine.op = "tick" =>
        /\ universe.cells
               = ReferenceStep(engine.before, universe.width, universe.height)
        /\ DOMAIN universe.cells = DOMAIN engine.before

C4_Witness ==
    /\ engine.op = "tick"
    /\ universe.width = 3
    /\ universe.height = 3
    /\ universe.cells # engine.before
    /\ universe.cells # tickInPlace(engine.before, 3, 3)
    /\ \E i \in DOMAIN universe.cells :
           engine.before[i] = Dead /\ universe.cells[i] = Alive
    /\ \E i \in DOMAIN universe.cells :
           engine.before[i] = Alive /\ universe.cells[i] = Alive

AllCells(w, h, v) == [idx \in 0 .. (w * h - 1) |-> v]

BlinkerCase ==
    /\ universe.width >= 4
    /\ universe.height >= 4

\* C5 (amended): on a grid at least 4 cells wide and high, three Alive cells
\* side by side in a row with every other cell Dead become, step by step, the
\* vertical blinker on the same centre and the horizontal one again: the
\* original state after every second step and not after one.  On the 3x3
\* grid the middle row fills the whole grid in one step, and the second step
\* leaves every cell Dead.
C5_BlinkerNeedsRoom ==
    /\ BlinkerCase =>
           universe.cells =
               IF engine.steps % 2 = 0
               THEN HBlinker(universe.width, universe.height, engine.row, engine.col)
               ELSE VBlinker(universe.width, universe.height, engine.row, engine.col)
    /\ BlinkerCase =>
           HBlinker(universe.width, universe.height, engine.row, engine.col)
               # VBlinker(universe.width, universe.height, engine.row, engine.col)
    /\ (universe.width = 3 /\ universe.height = 3 /\ engine.steps >= 1) =>
           universe.cells = AllCells(3, 3, IF engine.steps = 1 THEN Alive ELSE Dead)

C5_Witness ==
    /\ BlinkerCase
    /\ engine.steps = 2
    /\ engine.row = 0
    /\ engine.col = 0
    /\ universe.cells = HBlinker(universe.width, universe.height, 0, 0)
    /\ engine.before = VBlinker(universe.width, universe.height, 0, 0)

\* C5 as claimed: the 3x3 grid with its middle row Alive alternates between
\* the horizontal and the vertical blinker and is back after 2 steps.
C5_Original ==
    (universe.width = 3 /\ universe.height = 3 /\ engine.row = 1) =>
        universe.cells =
            IF engine.steps % 2 = 0
            THEN HBlinker(3, 3, 1, engine.col)
            ELSE VBlinker(3, 3, 1, engine.col)

\* (0, 0) and its three neighbours across the edges Alive, the rest Dead.
CornerPattern(w, h) ==
    [idx \in 0 .. (w * h - 1) |->
        IF idx \in {get_index(w, 0, 0), get_index(w, h - 1, w - 1),
                    get_index(w, h - 1, 0), get_index(w, 0, w - 1)}
        THEN Alive ELSE Dead]

RECURSIVE SumOver(_, _)
SumOver(f, n) == IF n = 0 THEN 0 ELSE f[n - 1] + SumOver(f, n - 1)

\* C6 (amended): on a grid at least 3 cells wide and high, step counts 3 live
\* neighbours for the Alive cell at (0, 0) whose only Alive neighbours are
\* (height-1, width-1), (height-1, 0) and (0, width-1), and it survives; a
\* single Alive cell is counted once by each of exactly 8 cells; and on a
\* grid of any size whose cells are all Alive every cell counts 8.
C6_WrapCountsThree ==
    engine.op = "tick" =>
        LET w == universe.width
            h == universe.height
            wide == w >= 3 /\ h >= 3
        IN /\ (wide /\ engine.before = CornerPattern(w, h)) =>
                  /\ engine.counts[0] = 3
                  /\ universe.cells[0] = Alive
           /\ (wide /\ SumOver(engine.before, w * h) = 1) =>
                  /\ SumOver(engine.counts, w * h) = 8
                  /\ \A i \in DOMAIN engine.counts : engine.counts[i] <= 1
           /\ engine.before = AllCells(w, h, Alive) =>
                  \A i \in DOMAIN engine.counts : engine.counts[i] = 8

C6_Witness ==
    /\ engine.op = "tick"
    /\ universe.width = 3
    /\ universe.height = 3
    /\ engine.before = CornerPattern(3, 3)
    /\ engine.counts[0] = 3
    /\ universe.cells[0] = Alive

\* C6 as claimed: the same count of 3, and survival, on every grid.
C6_Original ==
    (engine.op = "tick"
     /\ engine.before = CornerPattern(universe.width, universe.height)) =>
        /\ engine.counts[0] = 3
        /\ universe.cells[0] = Alive

ToggleStatements == {k \in DOMAIN todo : todo[k].op = "toggle_cell"}

\* C7: for a click whose scaled offset lies in [0, canvas.height] x
\* [0, canvas.width], the handler's row and column are in the grid, they are
\* what it passes to toggle_cell, and the call does not fail.
C7_ClickInBounds ==
    (/\ cb.name = "click"
     /\ cb.rawRow \in {FloorCell(top) : top \in ClickTops}
     /\ cb.rawCol \in {FloorCell(left) : left \in ClickLefts}) =>
        /\ cb.row \in 0 .. (height - 1)
        /\ cb.col \in 0 .. (width - 1)
        /\ \A k \in ToggleStatements :
               /\ todo[k].a = cb.row
               /\ todo[k].b = cb.col
               /\ InBounds(universe.width, universe.height, todo[k].a, todo[k].b)
        /\ \A k \in DOMAIN calls : calls[k].op = "toggle_cell" => calls[k].x = 1
        /\ ToggleStatements = {} => \E k \in DOMAIN calls : calls[k].op = "toggle_cell"

C7_Witness ==
    /\ Idle
    /\ cb.name = "click"
    /\ cb.rawRow = height
    /\ cb.rawCol = width
    /\ cb.row = height - 1
    /\ cb.col = width - 1
    /\ Ops(calls) = << "toggle_cell", "cells", "read" >>
    /\ calls[1].x = 1

SameCell == cb.row = prevCb.row /\ cb.col = prevCb.col

\* C8: a click flips the cell, and two clicks in a row on the same cell leave
\* the buffer as it was before the first: toggle twice is no change, for
\* every cell of the grid.
C8_TwoClicksRestore ==
    (Idle /\ cb.name = "click") =>
        /\ universe.cells[getIndex(cb.row, cb.col)]
               = Flip(cb.before.cells[getIndex(cb.row, cb.col)])
        /\ (prevCb.name = "click" /\ SameCell) =>
               /\ universe.cells = prevCb.before.cells
               /\ universe.id = prevCb.before.id

C8_Witness ==
    /\ Idle
    /\ isPaused
    /\ cb.name = "click"
    /\ prevCb.name = "click"
    /\ SameCell
    /\ width = 2
    /\ height = 2
    /\ universe.cells = prevCb.before.cells
    /\ universe.cells # cb.before.cells

Toggled == \E k \in DOMAIN calls : calls[k].op = "toggle_cell"

\* C9: from its start to its end a canvas click leaves the universe's
\* identity and dimensions, animationId, the pending frame, ticksPerFrame and
\* the button as they were; once its toggle_cell has run, the buffer differs
\* from the one before the click in exactly the cell at (row, col).
C9_ClickFrame ==
    cb.name = "click" =>
        /\ universe.id = cb.before.id
        /\ universe.width = cb.before.width
        /\ universe.height = cb.before.height
        /\ animationId = cb.before.animationId
        /\ pending = cb.before.pending
        /\ ticksPerFrame = cb.before.ticksPerFrame
        /\ label = cb.before.label
        /\ DOMAIN universe.cells = DOMAIN cb.before.cells
        /\ \A i \in DOMAIN universe.cells :
               (universe.cells[i] # cb.before.cells[i])
                   <=> (Toggled /\ i = getIndex(cb.row, cb.col))

C9_Witness ==
    /\ Idle
    /\ cb.name = "click"
    /\ ~isPaused
    /\ pending = {animationId}
    /\ width = 2
    /\ height = 2
    /\ cb.row = 0
    /\ cb.col = 1
    /\ universe.cells[1] # cb.before.cells[1]
    /\ universe.cells[2] = cb.before.cells[2]

\* C10: toggle with a row or a column outside the grid (row = height and
\* column = width among them) fails and leaves the buffer as it was.
C10_ToggleOutOfBounds ==
    (/\ engine.op = "toggle"
     /\ \/ engine.row \notin 0 .. (universe.height - 1)
        \/ engine.col \notin 0 .. (universe.width - 1)) =>
        /\ engine.failed
        /\ universe.cells = engine.before

C10_Witness ==
    /\ engine.op = "toggle"
    /\ universe.width = 3
    /\ universe.height = 3
    /\ engine.row = 1
    /\ engine.col = universe.width
    /\ engine.failed
    /\ universe.cells = engine.before
    /\ \E i \in DOMAIN universe.cells : universe.cells[i] = Alive

\* Every cell of the buffer is Dead.
AllDead(cells) == \A idx \in DOMAIN cells : cells[idx] = Dead

\* The canvas shows every cell dead.
CanvasAllDead == \A p \in Positions : canvas[p] = DEAD_COLOR

\* C11: the kill handler calls kill_universe on the current universe and then
\* redraws, with no tick in between.  The call leaves the universe's identity
\* and dimensions as they were and every entry of its buffer Dead; when the
\* handler returns its calls on the universe were kill_universe, cells() and
\* one read through the fresh view, and what that read painted is all dead.
C11_KillClearsThenDraws ==
    [][/\ Running("kill_universe") =>
              /\ universe'.id = universe.id
              /\ universe'.width = universe.width
              /\ universe'.height = universe.height
              /\ DOMAIN universe'.cells = DOMAIN universe.cells
              /\ AllDead(universe'.cells)
       /\ (cb.name = "kill" /\ ~Idle /\ Idle') =>
              /\ Ops(calls') = << "kill_universe", "cells", "read" >>
              /\ \A k \in DOMAIN calls' :
                     calls'[k].u = universe'.id /\ calls'[k].u = universe.id
              /\ calls'[3].x = 1
              /\ AllDead(universe'.cells)
              /\ CanvasAllDead'
              /\ universe'.width = width /\ universe'.height = height
      ]_vars

C11_Witness ==
    /\ Idle
    /\ cb.name = "kill"
    /\ width * height = MaxDim * MaxDim
    /\ nextRequest > 1
    /\ Ops(calls) = << "kill_universe", "cells", "read" >>
    /\ CanvasAllDead

\* C12: a reset re-randomizes the grid without changing its dimensions and
\* redraws.  In every state the width and height read once at page load are
\* those of the universe in use and its buffer has width * height entries;
\* when a reset handler returns it has replaced the universe, asked for its
\* buffer and read it once, and the canvas shows the new universe.
C12_ResetKeepsDimensions ==
    /\ universe.width = width
    /\ universe.height = height
    /\ DOMAIN universe.cells = 0 .. (width * height - 1)
    /\ (Idle /\ cb.name = "reset") =>
           /\ Ops(calls) = << "random_universe", "cells", "read" >>
           /\ \A k \in DOMAIN calls : calls[k].u = universe.id
           /\ gridDrawn
           /\ canvas = Paint(universe.cells)

C12_Witness ==
    /\ Idle
    /\ cb.name = "reset"
    /\ universe.id = MaxUniverses
    /\ width # height
    /\ \E p \in Positions : canvas[p] = ALIVE_COLOR
    /\ \E p \in Positions : canvas[p] = DEAD_COLOR

\* The entry of the buffer drawCells reads for the cell p = <<row, col>>.
ReadAt(p) == getIndex(p[1], p[2])

\* C13: drawCells reads the buffer in row-major layout.  The view it builds
\* has width * height entries; for the cell (row, col) it reads entry
\* row * width + col; every index of the buffer is read for exactly one cell
\* and no read falls outside it; and once a read has painted the canvas, a
\* cell shows dead exactly when its entry of the buffer equals Dead.
C13_RowMajorRead ==
    /\ Cardinality(Positions) = width * height
    /\ \A p \in Positions :
           /\ ReadAt(p) = p[1] * width + p[2]
           /\ ReadAt(p) \in 0 .. (width * height - 1)
           /\ ReadAt(p) \in DOMAIN universe.cells
    /\ \A idx \in 0 .. (width * height - 1) :
           Cardinality({p \in Positions : ReadAt(p) = idx}) = 1
    /\ (calls # <<>> /\ Last(calls).op = "read") =>
           /\ DOMAIN canvas = Positions
           /\ \A p \in Positions :
                  canvas[p] = DEAD_COLOR
                      <=> universe.cells[p[1] * universe.width + p[2]] = Dead

C13_Witness ==
    /\ calls # <<>>
    /\ Last(calls).op = "read"
    /\ width = MaxDim
    /\ height = MaxDim
    /\ canvas[<<0, 1>>] = ALIVE_COLOR
    /\ canvas[<<1, 0>>] = DEAD_COLOR
    /\ universe.cells[1] = Alive
    /\ universe.cells[width] = Dead

\* The step is a call of universe.tick().
TickCall == Len(calls') = Len(calls) + 1 /\ Last(calls').op = "tick"

\* The callbacks that call play(): a click on the play/pause button, and the
\* page load.
PlayCallbacks == {"playPause", "startup"}

\* C14: once pause() has completed, animationId is null, and from such a state
\* no tick is made until a click on the play button calls play().  Between two
\* callbacks of a paused simulation no frame is pending, so the next callback
\* is not the cancelled frame; a tick made while animationId is null is a tick
\* of play()'s own renderLoop; and only play() makes animationId non-null
\* again, so the reset, kill, canvas-click and slider handlers that follow a
\* pause neither tick nor resume.
C14_NoTickWhilePaused ==
    [][/\ (Idle /\ isPaused) => (pending = {} /\ cb'.name # "frame")
       /\ (isPaused /\ TickCall) =>
              /\ cb.name \in PlayCallbacks
              /\ Entries # {}
       /\ (isPaused /\ ~isPaused') => cb.name \in PlayCallbacks
      ]_vars

C14_Witness ==
    /\ Idle
    /\ isPaused
    /\ label = PlaySymbol
    /\ pending = {}
    /\ nextRequest > 1
    /\ cb.name = "reset"
    /\ universe.id > 1

\* The calls that reach a universe: they mutate it, read it, or construct it.
UniverseOps ==
    {"tick", "toggle_cell", "kill_universe", "cells", "read",
     "random_universe"}

\* C15: every tick, toggle_cell, kill_universe and cells() call, and every
\* read through a view, reaches the universe that is current; a universe a
\* reset has replaced is never reached again.  A reset makes a universe no
\* earlier one is, as the first call of its handler, so each call a callback
\* has logged, the frame requested before a reset included, names the
\* universe in use.
C15_CallsReachCurrentUniverse ==
    /\ universe.id = nextUniverse - 1
    /\ \A k \in DOMAIN calls :
           calls[k].op \in UniverseOps =>
               /\ calls[k].u = universe.id
               /\ calls[k].op = "read" => calls[k].x = 1
               /\ calls[k].op = "random_universe" => k = 1

C15_Witness ==
    /\ Idle
    /\ cb.name = "frame"
    /\ universe.id = 2
    /\ nextRequest = 3
    /\ animationId = 2
    /\ Ops(calls) = << "renderLoop", "tick", "tick", "cells", "read",
                       "requestAnimationFrame" >>
    /\ \A k \in 2 .. 5 : calls[k].u = 2

\* C16: at most one renderLoop callback is pending, and between callbacks
\* animationId is non-null exactly when one is pending, which is then the
\* request animationId names.  Two render loops never run side by side: a
\* callback enters renderLoop at most once, and from its entry to its request
\* for the next frame no other frame is pending.
C16_OneLoopPending ==
    /\ Cardinality(pending) <= 1
    /\ Idle => /\ ~isPaused <=> pending # {}
               /\ pending \subseteq {animationId}
    /\ Cardinality(Entries) <= 1
    /\ (Entries # {} /\ Last(calls).op # "requestAnimationFrame")
           => pending = {}

C16_Witness ==
    /\ Idle
    /\ cb.name = "playPause"
    /\ ~isPaused
    /\ pending = {animationId}
    /\ animationId = MaxRequests

\* The calls that change what the current universe holds.
Mutators == {"tick", "toggle_cell", "kill_universe", "random_universe"}

\* C17: whenever no callback is running, from the end of the page load on, the
\* canvas shows the buffer of the current universe, with the grid lines drawn:
\* each mutating call of the callback that has just returned was followed, in
\* that callback, by a read through a fresh view.
C17_CanvasShowsBuffer ==
    Idle =>
        /\ gridDrawn
        /\ canvas = Paint(universe.cells)
        /\ \A k \in DOMAIN calls :
               calls[k].op \in Mutators =>
                   \E j \in DOMAIN calls :
                       j > k /\ calls[j].op = "read" /\ calls[j].x = 1

C17_Witness ==
    /\ Idle
    /\ cb.name = "click"
    /\ canvas # Paint(cb.before.cells)
    /\ canvas = Paint(universe.cells)
    /\ prevCb.name = "click"

\* C18: a kill leaves the simulation paused, whether it was running or not:
\* when its handler returns animationId is null, no frame is pending, the
\* button shows the play symbol and every cell is Dead.  From then on the grid
\* stays all Dead until a canvas click or a reset: the only steps that take an
\* all-Dead buffer to another one are toggle_cell and the replacement of the
\* universe, so the ticks made after the user presses play leave it all Dead.
C18_KillLeavesPausedAndDead ==
    [][/\ (cb.name = "kill" /\ ~Idle /\ Idle') =>
              /\ isPaused'
              /\ pending' = {}
              /\ label' = PlaySymbol
              /\ AllDead(universe'.cells)
       /\ (AllDead(universe.cells) /\ ~AllDead(universe'.cells)) =>
              /\ Running("toggle_cell") \/ Running("random_universe")
              /\ cb.name \in {"click", "reset"}
       /\ (AllDead(universe.cells) /\ TickCall) => universe' = universe
      ]_vars

C18_Witness ==
    /\ Idle
    /\ cb.name = "kill"
    /\ isPaused
    /\ pending = {}
    /\ label = PlaySymbol
    /\ AllDead(universe.cells)
    /\ nextRequest = MaxRequests
    /\ width * height > 1

\* C19: whenever no callback is running, from the end of the page load on, the
\* play/pause button shows the pause symbol exactly when the simulation is
\* running (animationId is not null) and the play symbol exactly when it is
\* paused (animationId is null).
C19_LabelAgreesWithRunState ==
    Idle =>
        /\ label = PauseSymbol <=> ~isPaused
        /\ label = PlaySymbol <=> isPaused

C19_Witness ==
    /\ Idle
    /\ cb.name = "playPause"
    /\ label = PauseSymbol
    /\ ~isPaused
    /\ animationId > 1
    /\ universe.id > 1

\* A delivered frame is running renderLoop.
FrameRuns == cb.name = "frame" /\ ~Idle

\* Between two callbacks of a running simulation that may still request a
\* frame.
RunningAtRest == Idle /\ ~isPaused /\ nextRequest <= MaxRequests

\* C20: the simulation starts running at page load; while it runs and the
\* browser delivers the frames it is asked for, renderLoop runs again unless a
\* pause or a kill comes first, and each run makes its ticksPerFrame ticks,
\* draws and requests the next frame, so frames follow one another for as
\* long as requests may be made; a reset leaves the pending request and
\* animationId as they are.
C20_FramesKeepComing ==
    /\ (cb.name = "startup" /\ ~Idle)
           ~> (cb.name = "startup" /\ Idle /\ ~isPaused
               /\ pending = {animationId})
    /\ RunningAtRest ~> (FrameRuns \/ isPaused)
    /\ FrameRuns
           ~> (/\ cb.name = "frame"
               /\ Idle
               /\ ~isPaused
               /\ pending = {animationId}
               /\ Ops(calls) = Expected(ticksPerFrame))
    /\ [][cb'.name = "reset" =>
              (animationId' = animationId /\ pending' = pending)]_vars

C20_Witness ==
    /\ Idle
    /\ cb.name = "frame"
    /\ ~isPaused
    /\ pending = {animationId}
    /\ universe.id > 1
    /\ animationId = MaxRequests
    /\ Ops(calls) = Expected(MaxTicks)

====
